---- MODULE Spec2Model ----
(***************************************************************************)
(* Model of couchbase_upgrade.py: the rolling upgrade of a Couchbase       *)
(* cluster (class CouchbaseUpgrader).  The program is one sequential       *)
(* process; pc is its position, one action per remote command it issues.   *)
(* Text (stdout of remote commands, version strings) is a sequence of      *)
(* one-character strings, so that substring tests, split, strip and the    *)
(* StrictVersion parse are computed and not assumed.                       *)
(***************************************************************************)
EXTENDS Integers, Sequences, FiniteSets, TLC

(***************************************************************************)
(* Bounds of the model.                                                    *)
(***************************************************************************)
\* Longest node list a run is given.
MaxNodes == 2
\* Longest member list (in lines) the server-list query answers with.
MaxLines == 3

(***************************************************************************)
(* Text helpers: Python str operations used by the program.                *)
(***************************************************************************)
\* Python: sub in s
Contains(s, sub) ==
  \E i \in 1..(Len(s) - Len(sub) + 1) : SubSeq(s, i, i + Len(sub) - 1) = sub

\* Position of the first occurrence of the character c in s, 0 when absent.
RECURSIVE FindChar(_, _, _)
FindChar(s, c, i) ==
  IF i > Len(s) THEN 0
  ELSE IF s[i] = c THEN i
  ELSE FindChar(s, c, i + 1)

\* Python: s.split(c), c one character.  Always at least one part.
RECURSIVE Split(_, _)
Split(s, c) ==
  LET p == FindChar(s, c, 1) IN
    IF p = 0 THEN <<s>>
    ELSE <<SubSeq(s, 1, p - 1)>> \o Split(SubSeq(s, p + 1, Len(s)), c)

\* Python: c.join(parts)
RECURSIVE Join(_, _)
Join(parts, c) ==
  IF Len(parts) = 0 THEN <<>>
  ELSE IF Len(parts) = 1 THEN parts[1]
  ELSE parts[1] \o <<c>> \o Join(Tail(parts), c)

Whitespace == {" ", "\n", "\t"}

RECURSIVE LStrip(_)
LStrip(s) ==
  IF s # <<>> /\ s[1] \in Whitespace THEN LStrip(Tail(s)) ELSE s

RECURSIVE RStrip(_)
RStrip(s) ==
  IF s # <<>> /\ s[Len(s)] \in Whitespace THEN RStrip(SubSeq(s, 1, Len(s) - 1)) ELSE s

\* Python: s.strip()
Strip(s) == RStrip(LStrip(s))

Digits == <<"0", "1", "2", "3", "4", "5", "6", "7", "8", "9">>

IsDigit(c) == \E d \in 1..10 : Digits[d] = c

DigitValue(c) == (CHOOSE d \in 1..10 : Digits[d] = c) - 1

\* Python: int(s) for a string of digits
RECURSIVE ToInt(_)
ToInt(s) ==
  IF s = <<>> THEN 0
  ELSE 10 * ToInt(SubSeq(s, 1, Len(s) - 1)) + DigitValue(s[Len(s)])

\* Python: str(n) for n >= 0
RECURSIVE ToStr(_)
ToStr(n) ==
  IF n < 10 THEN <<Digits[n + 1]>>
  ELSE ToStr(n \div 10) \o <<Digits[(n % 10) + 1]>>

(***************************************************************************)
(* Python values returned by the methods: True, False, a str, or an        *)
(* exception that nothing in the program catches.                          *)
(***************************************************************************)
PyTrue == [kind |-> "True", s |-> <<>>]
PyFalse == [kind |-> "False", s |-> <<>>]
PyStr(s) == [kind |-> "str", s |-> s]
PyRaise == [kind |-> "Raise", s |-> <<>>]

\* Python truth value of a returned value
Truthy(v) == v.kind = "True" \/ (v.kind = "str" /\ v.s # <<>>)

(***************************************************************************)
(* distutils.version.StrictVersion, on strings without a pre-release tag   *)
(* (the inputs drawn below have none): "N.N" or "N.N.N".  The constructor  *)
(* parses only a non-empty string, so StrictVersion('') is an object       *)
(* without a version attribute and comparing it raises AttributeError; an  *)
(* ill-formed string raises ValueError in the constructor.                 *)
(***************************************************************************)
IsNumber(s) == s # <<>> /\ \A i \in 1..Len(s) : IsDigit(s[i])

StrictVersion(vstring) ==
  IF vstring = <<>> THEN [state |-> "noattr", version |-> <<0, 0, 0>>]
  ELSE LET parts == Split(vstring, ".") IN
    IF Len(parts) \in {2, 3} /\ \A i \in 1..Len(parts) : IsNumber(parts[i])
    THEN [state |-> "parsed",
          version |-> <<ToInt(parts[1]), ToInt(parts[2]),
                        IF Len(parts) = 3 THEN ToInt(parts[3]) ELSE 0>>]
    ELSE [state |-> "ValueError", version |-> <<0, 0, 0>>]

\* Python: cmp of two tuples of three integers
TupleCmp(a, b) ==
  IF a[1] # b[1] THEN (IF a[1] < b[1] THEN "lt" ELSE "gt")
  ELSE IF a[2] # b[2] THEN (IF a[2] < b[2] THEN "lt" ELSE "gt")
  ELSE IF a[3] # b[3] THEN (IF a[3] < b[3] THEN "lt" ELSE "gt")
  ELSE "eq"

\* StrictVersion(a) <op> StrictVersion(b): "lt", "eq", "gt", or "Raise"
StrictVersionCmp(a, b) ==
  LET va == StrictVersion(a)
      vb == StrictVersion(b)
  IN IF va.state = "ValueError" \/ vb.state = "ValueError" THEN "Raise"
     ELSE IF va.state = "noattr" \/ vb.state = "noattr" THEN "Raise"
     ELSE TupleCmp(va.version, vb.version)

(***************************************************************************)
(* Text constants of the program.                                          *)
(***************************************************************************)
\* Default of the port parameter of the constructor.
port == 8091
\* 'latest', the default of the version parameter
Latest == <<"l", "a", "t", "e", "s", "t">>

\* '0.0.0', the floor of get_latest_version
ZeroVersion == <<"0", ".", "0", ".", "0">>

\* 'healthy', the marker of all_nodes_healthy and the status wait_until_node_healthy waits for
Healthy == <<"h", "e", "a", "l", "t", "h", "y">>

\* 'notRunning', the status wait_until_rebalanced waits for
NotRunning == <<"n", "o", "t", "R", "u", "n", "n", "i", "n", "g">>

\* 'Nothing to do', the no-op marker of upgrade_couchbase
NothingToDo == <<"N", "o", "t", "h", "i", "n", "g", " ", "t", "o", " ", "d", "o">>

\* 'No packages marked for update', the no-op marker of upgrade_system
NoPackagesMarked == <<"N", "o", " ", "p", "a", "c", "k", "a", "g", "e", "s", " ", "m", "a", "r", "k", "e", "d", " ", "f", "o", "r", " ", "u", "p", "d", "a", "t", "e">>

(***************************************************************************)
(* The methods of CouchbaseUpgrader that read the result of ssh_command.   *)
(* A result is [exit_code, stdout].  The stdout of a query that the        *)
(* program hands to json.loads is modelled after parsing: json = FALSE is  *)
(* text json.loads raises ValueError on, otherwise data is the dictionary  *)
(* (a function from the keys present to their string values).             *)
(***************************************************************************)
\* json.loads(stdout): raises (FALSE) or yields the dictionary
JsonLoads(stdout) == [ok |-> stdout.json, data |-> stdout.data]

\* current_version_lower with a higher current version taken for a lower one
current_version_lower_only_equal(result, version) ==
  IF result.exit_code = 0 THEN
    LET loaded == JsonLoads(result.stdout) IN
    IF ~loaded.ok THEN PyRaise
    ELSE IF "version" \in DOMAIN loaded.data THEN
      LET c == StrictVersionCmp(Split(loaded.data["version"], "-")[1], version)
      IN IF c = "Raise" THEN PyRaise
         ELSE IF c = "eq" THEN PyFalse
         ELSE PyTrue
    ELSE PyFalse
  ELSE PyFalse

\* current_version_lower taking a node whose version it could not read for a
\* lower one
current_version_lower_failed_is_lower(result, version) ==
  IF result.exit_code = 0 THEN
    LET loaded == JsonLoads(result.stdout) IN
    IF ~loaded.ok THEN PyRaise
    ELSE IF "version" \in DOMAIN loaded.data THEN
      LET c == StrictVersionCmp(Split(loaded.data["version"], "-")[1], version)
      IN IF c = "Raise" THEN PyRaise
         ELSE IF c = "eq" THEN PyFalse
         ELSE IF c = "gt" THEN PyFalse
         ELSE PyTrue
    ELSE PyTrue
  ELSE PyTrue

\* current_version_lower: PyTrue, PyFalse or PyRaise
current_version_lower(result, version) ==
  IF result.exit_code = 0 THEN
    LET loaded == JsonLoads(result.stdout) IN
    IF ~loaded.ok THEN PyRaise
    ELSE IF "version" \in DOMAIN loaded.data THEN
      LET version_parts == Split(loaded.data["version"], "-")
          current_version == version_parts[1]
          c == StrictVersionCmp(current_version, version)
      IN IF c = "Raise" THEN PyRaise
         ELSE IF c = "eq" THEN PyFalse
         ELSE IF c = "gt" THEN PyFalse
         ELSE PyTrue
    ELSE PyFalse
  ELSE PyFalse

stop_service(result) == result.exit_code = 0

\* upgrade_couchbase that never clears _couchbase_upgrades_available
upgrade_couchbase_sticky(result, available) ==
  IF result.exit_code # 0 THEN [ret |-> FALSE, available |-> available]
  ELSE [ret |-> TRUE, available |-> available \/ ~Contains(result.stdout, NothingToDo)]

\* upgrade_couchbase: the returned bool and the value of
\* _couchbase_upgrades_available afterwards (available is its value before)
upgrade_couchbase(result, available) ==
  IF result.exit_code # 0 THEN [ret |-> FALSE, available |-> available]
  ELSE [ret |-> TRUE, available |-> ~Contains(result.stdout, NothingToDo)]

\* upgrade_system with the exit code not looked at
upgrade_system_ignored(result, available) ==
  [ret |-> TRUE, available |-> ~Contains(result.stdout, NoPackagesMarked)]

\* upgrade_system: the returned bool and the value of _os_upgrades_available
\* afterwards
upgrade_system(result, available) ==
  IF result.exit_code # 0 THEN [ret |-> FALSE, available |-> available]
  ELSE [ret |-> TRUE, available |-> ~Contains(result.stdout, NoPackagesMarked)]

start_service(result) == result.exit_code = 0

set_recovery_type(result) == result.exit_code = 0

\* rebalance with the exit code not looked at
rebalance_ignored(result) == TRUE

rebalance(result) == result.exit_code = 0

\* The loop of all_nodes_healthy over the lines, from line i on, with its break
RECURSIVE LinesHealthyFrom(_, _)
LinesHealthyFrom(lines, i) ==
  IF i > Len(lines) THEN TRUE
  ELSE IF Contains(lines[i], ToStr(port)) /\ ~Contains(lines[i], Healthy) THEN FALSE
  ELSE LinesHealthyFrom(lines, i + 1)

\* all_nodes_healthy testing the whole output instead of each line
all_nodes_healthy_unsplit(result) ==
  IF result.exit_code # 0 THEN FALSE
  ELSE ~(Contains(result.stdout, ToStr(port)) /\ ~Contains(result.stdout, Healthy))

all_nodes_healthy(result) ==
  IF result.exit_code # 0 THEN FALSE
  ELSE LinesHealthyFrom(Split(result.stdout, "\n"), 1)

\* get_node_status: PyStr(status), PyFalse or PyRaise
get_node_status(result) ==
  IF result.exit_code # 0 THEN PyFalse
  ELSE LET loaded == JsonLoads(result.stdout) IN
    IF ~loaded.ok THEN PyRaise
    ELSE IF "status" \in DOMAIN loaded.data THEN PyStr(loaded.data["status"])
    ELSE PyFalse

\* get_rebalance_status answering 'notRunning' when it could not tell
get_rebalance_status_default(result) ==
  IF result.exit_code = 0 /\ result.stdout.json /\ "status" \in DOMAIN result.stdout.data
  THEN PyStr(result.stdout.data["status"])
  ELSE IF result.exit_code = 0 /\ ~result.stdout.json THEN PyRaise
  ELSE PyStr(NotRunning)

\* get_rebalance_status: PyStr(status), PyFalse or PyRaise
get_rebalance_status(result) ==
  IF result.exit_code = 0 THEN
    LET loaded == JsonLoads(result.stdout) IN
    IF ~loaded.ok THEN PyRaise
    ELSE IF "status" \in DOMAIN loaded.data THEN PyStr(loaded.data["status"])
    ELSE PyFalse
  ELSE PyFalse

\* get_latest_version returning the floor it compared with
get_latest_version_zero(result) ==
  IF result.exit_code # 0 THEN PyFalse
  ELSE LET latest_version == Strip(result.stdout)
           c == StrictVersionCmp(latest_version, ZeroVersion)
       IN IF c = "Raise" THEN PyRaise
          ELSE IF c = "gt" THEN PyStr(ZeroVersion)
          ELSE PyFalse

\* get_latest_version: PyStr(version), PyFalse or PyRaise
get_latest_version(result) ==
  IF result.exit_code # 0 THEN PyFalse
  ELSE LET latest_version == Strip(result.stdout)
           c == StrictVersionCmp(latest_version, ZeroVersion)
       IN IF c = "Raise" THEN PyRaise
          ELSE IF c = "gt" THEN PyStr(latest_version)
          ELSE PyFalse

\* reboot that does not mark the node as rebooting
reboot_rebooting_unset == FALSE

\* reboot: the value it gives _rebooting
reboot_rebooting == TRUE

\* The decision of line 471 not looking at what the upgrade changed
skip_reboot_decision_any(force_reboot, reboot, os_upgrades_available) ==
  force_reboot \/ reboot

\* upgrade_node, line 471: the reboot decision of a node that is not upgraded
skip_reboot_decision(force_reboot, reboot, os_upgrades_available) ==
  force_reboot \/ (reboot /\ os_upgrades_available)

\* The decision of lines 498-499 looking at the operating system upgrade only
reboot_decision_os_only(force_reboot, reboot, couchbase_upgrades_available, os_upgrades_available) ==
  force_reboot \/ (reboot /\ os_upgrades_available)

\* upgrade_node, lines 498-499: the reboot decision of an upgraded node
reboot_decision(force_reboot, reboot, couchbase_upgrades_available, os_upgrades_available) ==
  force_reboot \/ (reboot /\ (couchbase_upgrades_available \/ os_upgrades_available))

(***************************************************************************)
(* The environment: what ssh_command can return for each remote command.   *)
(* Each command's answers are drawn from a small set that covers every     *)
(* branch of the method reading it.                                        *)
(***************************************************************************)
\* Service commands, recovery, rebalance, reboot: only the exit code is read.
ExitResults == {[exit_code |-> e, stdout |-> <<>>] : e \in {0, 1}}

\* The version the configured target stands for (and the newest version of
\* the package repository), and the versions a node can be running.
TargetVersions == {<<6, 6, 0>>}
NodeVersions == {<<6, 5, 0>>, <<6, 6, 0>>, <<6, 10, 0>>}

\* Build suffix of the version field of server-info
BuildSuffix == <<"-", "1", "2", "0", "0", "-", "e", "n", "t", "e", "r", "p", "r", "i", "s", "e">>
BuildSuffixes == {<<>>, BuildSuffix}

\* A version as the cluster and the package repository print it
FormatVersion(v) == ToStr(v[1]) \o <<".">> \o ToStr(v[2]) \o <<".">> \o ToStr(v[3])

\* Node statuses of server-info, rebalance statuses of rebalance-status
Unhealthy == <<"u", "n", "h", "e", "a", "l", "t", "h", "y">>
Warmup == <<"w", "a", "r", "m", "u", "p">>
Running == <<"r", "u", "n", "n", "i", "n", "g">>
NodeStatuses == {Healthy, Unhealthy, Warmup}
RebalanceStatuses == {NotRunning, Running}

\* How a query that answers JSON can end: a document with the field read, a
\* non-zero exit, text that is not JSON, a document without the field.
QueryShapes == {"ok", "exit", "nojson", "nofield"}

JsonResult(shape, data) ==
  CASE shape = "ok" -> [exit_code |-> 0, stdout |-> [json |-> TRUE, data |-> data]]
    [] shape = "exit" -> [exit_code |-> 1, stdout |-> [json |-> FALSE, data |-> ("error" :> <<"x">>)]]
    [] shape = "nojson" -> [exit_code |-> 0, stdout |-> [json |-> FALSE, data |-> ("error" :> <<"x">>)]]
    [] shape = "nofield" -> [exit_code |-> 0, stdout |-> [json |-> TRUE, data |-> ("hostname" :> <<"x">>)]]

\* server-info of a node running version cur with the given status
ServerInfoResult(shape, cur, suffix, status) ==
  JsonResult(shape, ("version" :> (FormatVersion(cur) \o suffix)) @@ ("status" :> status))

\* rebalance-status
RebalanceStatusResult(shape, status) == JsonResult(shape, ("status" :> status))

\* The package and the operating system upgrade: what yum prints
YumComplete == <<"I", "n", "s", "t", "a", "l", "l", "e", "d", ":", "\n", "C", "o", "m", "p", "l", "e", "t", "e", "!", "\n">>
UpgradeShapes == {"changed", "nochange", "exit"}

UpgradeResult(shape, marker) ==
  CASE shape = "changed" -> [exit_code |-> 0, stdout |-> YumComplete]
    [] shape = "nochange" -> [exit_code |-> 0, stdout |-> <<"\n">> \o marker \o <<"\n">>]
    [] shape = "exit" -> [exit_code |-> 1, stdout |-> <<>>]

\* The latest-version query: the newest version, a non-zero exit, no output,
\* 0.0.0, or text that is no version.
LatestShapes == {"ok", "exit", "empty", "zero", "garbled"}

YumError == <<"E", "r", "r", "o", "r", ":", " ", "n", "o", " ", "r", "e", "p", "o", "s">>

LatestVersionResult(shape, newest) ==
  CASE shape = "ok" -> [exit_code |-> 0, stdout |-> FormatVersion(newest) \o <<"\n">>]
    [] shape = "exit" -> [exit_code |-> 1, stdout |-> <<>>]
    [] shape = "empty" -> [exit_code |-> 0, stdout |-> <<>>]
    [] shape = "zero" -> [exit_code |-> 0, stdout |-> ZeroVersion \o <<"\n">>]
    [] shape = "garbled" -> [exit_code |-> 0, stdout |-> YumError \o <<"\n">>]

\* Lines of server-list: members on the configured port that are healthy, warming
\* up or unhealthy, and members on another port.
LineHealthy == <<"n", "s", "_", "1", "@", "1", "0", ".", "0", ".", "0", ".", "1", " ", "1", "0", ".", "0", ".", "0", ".", "1", ":", "8", "0", "9", "1", " ", "h", "e", "a", "l", "t", "h", "y", " ", "a", "c", "t", "i", "v", "e">>
LineWarmup == <<"n", "s", "_", "1", "@", "1", "0", ".", "0", ".", "0", ".", "2", " ", "1", "0", ".", "0", ".", "0", ".", "2", ":", "8", "0", "9", "1", " ", "w", "a", "r", "m", "u", "p", " ", "a", "c", "t", "i", "v", "e">>
LineUnhealthy == <<"n", "s", "_", "1", "@", "1", "0", ".", "0", ".", "0", ".", "3", " ", "1", "0", ".", "0", ".", "0", ".", "3", ":", "8", "0", "9", "1", " ", "u", "n", "h", "e", "a", "l", "t", "h", "y", " ", "i", "n", "a", "c", "t", "i", "v", "e", "F", "a", "i", "l", "e", "d">>
LineOtherPort == <<"n", "s", "_", "1", "@", "1", "0", ".", "0", ".", "0", ".", "4", " ", "1", "0", ".", "0", ".", "0", ".", "4", ":", "9", "0", "0", "0", " ", "w", "a", "r", "m", "u", "p", " ", "a", "c", "t", "i", "v", "e">>
LineOtherPortHealthy == <<"n", "s", "_", "1", "@", "1", "0", ".", "0", ".", "0", ".", "5", " ", "1", "0", ".", "0", ".", "0", ".", "5", ":", "9", "0", "0", "0", " ", "h", "e", "a", "l", "t", "h", "y", " ", "a", "c", "t", "i", "v", "e">>
MemberLines == {LineHealthy, LineWarmup, LineUnhealthy, LineOtherPort, LineOtherPortHealthy}

\* The member lists of server-list of at most MaxLines lines
MemberLists == UNION {[1..k -> MemberLines] : k \in 0..MaxLines}

\* server-list printing the given lines, with or without a final newline
ServerListResult(exit_code, lines, newline) ==
  [exit_code |-> exit_code,
   stdout |-> IF newline /\ lines # <<>> THEN Join(lines, "\n") \o <<"\n">> ELSE Join(lines, "\n")]

\* The answers of server-list the runs of the program are checked with
ServerListSamples ==
  {ServerListResult(1, <<>>, FALSE),
   ServerListResult(0, <<LineHealthy, LineHealthy>>, TRUE),
   ServerListResult(0, <<LineHealthy, LineWarmup>>, TRUE),
   ServerListResult(0, <<LineOtherPort>>, TRUE)}

(***************************************************************************)
(* The state of a run.                                                     *)
(***************************************************************************)
VARIABLES
  self_nodes,           \* _nodes: the node list (hosts named by their position)
  self_version,         \* _version: 'latest', '' or a version; resolved by upgrade()
  self_upgrade_system,  \* _upgrade_system
  self_reboot,          \* _reboot
  self_force_reboot,    \* _force_reboot
  self_rebooting,       \* _rebooting
  self_couchbase_upgrades_available,  \* _couchbase_upgrades_available
  self_os_upgrades_available,         \* _os_upgrades_available
  repo_version,         \* the version the target stands for (environment)
  pc,                   \* position of the program
  node,                 \* position in _nodes of the node of the for loop
  log,                  \* the remote commands issued so far, with what they answered
  stderr,               \* the messages upgrade() and upgrade_node() wrote to stderr
  result,               \* what upgrade() returned: "running", "True", "False", "exception"
  last_exit_code,       \* exit code of the last remote command (-1 before the first)
  exit_status,          \* exit status of the process (-1 while it runs)
  node_phase,           \* the node of the for loop: "up", "reboot_pending", "down", "restarted"
  fn_in,                \* input of the function applied by a function specification
  fn_out                \* its output

vars == <<self_nodes, self_version, self_upgrade_system, self_reboot, self_force_reboot,
          self_rebooting, self_couchbase_upgrades_available, self_os_upgrades_available,
          repo_version, pc, node, log, stderr, result, last_exit_code, exit_status,
          node_phase, fn_in, fn_out>>

\* RunConfiguration: never assigned after the constructor
config == <<self_nodes, self_upgrade_system, self_reboot, self_force_reboot,
            repo_version, fn_in, fn_out>>

upgrades_available == <<self_couchbase_upgrades_available, self_os_upgrades_available>>

NoInput == [exit_code |-> 0, lines |-> <<>>, newline |-> FALSE]

\* The constructor, called by __main__ with the parsed arguments
Init ==
  /\ \E n \in 1..MaxNodes : self_nodes = [i \in 1..n |-> i]
  /\ repo_version \in TargetVersions
  /\ self_version \in {Latest, <<>>, FormatVersion(repo_version)}
  /\ self_upgrade_system \in BOOLEAN
  /\ self_reboot \in BOOLEAN
  /\ self_force_reboot \in BOOLEAN
  /\ self_rebooting = FALSE
  /\ self_couchbase_upgrades_available = FALSE
  /\ self_os_upgrades_available = FALSE
  /\ pc = "upgrade"
  /\ node = 1
  /\ log = <<>>
  /\ stderr = <<>>
  /\ result = "running"
  /\ last_exit_code = -1
  /\ exit_status = -1
  /\ node_phase = "up"
  /\ fn_in = NoInput
  /\ fn_out = "none"

(***************************************************************************)
(* Steps shared by the actions.                                            *)
(***************************************************************************)
\* __main__ without its exit(1)
main_exit_always_zero(upgrade_result) == 0

\* Lines 637-638: __main__ calls exit(1) when upgrade() returned False and
\* else runs off its end (status 0); an exception that nothing catches ends
\* the interpreter with status 1.
main_exit(upgrade_result) == IF upgrade_result = "True" THEN 0 ELSE 1

\* The attempt a command belongs to: 0 before the for loop (the commands of
\* upgrade() itself, run on the first node), else the position of the node.
Attempt == IF pc \in {"upgrade", "preflight_healthy", "preflight_rebalance"} THEN 0 ELSE node

\* ssh_command was called and returned r: the command is on record with what
\* the program learned from it (out; "dropped" when the program does not read
\* the result).
Issue(cmd, r, out) ==
  /\ log' = Append(log, [att |-> Attempt, cmd |-> cmd, out |-> out])
  /\ last_exit_code' = r.exit_code

\* A round of a wait loop: the loop is on record once, with its latest answer.
IssuePoll(cmd, r, out) ==
  /\ log' = IF log # <<>> /\ log[Len(log)] = [att |-> Attempt, cmd |-> cmd, out |-> "waiting"]
            THEN [log EXCEPT ![Len(log)].out = out]
            ELSE Append(log, [att |-> Attempt, cmd |-> cmd, out |-> out])
  /\ last_exit_code' = r.exit_code

Goto(l) == pc' = l /\ UNCHANGED <<node, stderr, result, exit_status>>

\* upgrade_node returns True: the for loop goes to the next node
ReturnTrue == pc' = "for" /\ node' = node + 1 /\ UNCHANGED <<stderr, result, exit_status>>

\* The for loop going on after a node that failed
ReturnFalse_continue(msg) ==
  /\ pc' = "for"
  /\ node' = node + 1
  /\ stderr' = stderr \o <<msg, "Failed to patch the Couchbase cluster">>
  /\ UNCHANGED <<result, exit_status>>

\* upgrade_node returns False after writing msg: upgrade() returns False
ReturnFalse(msg) ==
  /\ pc' = "done"
  /\ result' = "False"
  /\ exit_status' = main_exit(result')
  /\ stderr' = stderr \o <<msg, "Failed to patch the Couchbase cluster">>
  /\ UNCHANGED node

\* upgrade() returns False before the for loop
Abort(msg) ==
  /\ pc' = "done"
  /\ result' = "False"
  /\ exit_status' = main_exit(result')
  /\ stderr' = Append(stderr, msg)
  /\ UNCHANGED node

\* An exception nothing catches ends the process
Raise ==
  /\ pc' = "done"
  /\ result' = "exception"
  /\ exit_status' = main_exit(result')
  /\ UNCHANGED <<node, stderr>>

\* After the reboot decision of a node that was upgraded (lines 498-507)
AfterUpgrades(couchbase_available, os_available) ==
  IF reboot_decision(self_force_reboot, self_reboot, couchbase_available, os_available)
  THEN Goto("reboot")
  ELSE Goto("start_service")

\* After the reboot decision of a node that is not upgraded (lines 471-474)
AfterSkip(os_available) ==
  IF skip_reboot_decision(self_force_reboot, self_reboot, os_available)
  THEN Goto("skip_reboot")
  ELSE ReturnTrue

(***************************************************************************)
(* upgrade(): target resolution and the pre-flight checks.                 *)
(***************************************************************************)
\* Lines 538-547: 'latest' is resolved on the first node
Upgrade ==
  /\ pc = "upgrade"
  /\ IF self_version = Latest
     THEN \E shape \in LatestShapes :
            LET r == LatestVersionResult(shape, repo_version)
                latest_version == get_latest_version(r) IN
              /\ Issue("get_latest_version", r, shape)
              /\ IF latest_version.kind = "Raise"
                 THEN Raise /\ UNCHANGED self_version
                 ELSE IF Truthy(latest_version)
                 THEN Goto("preflight_healthy") /\ self_version' = latest_version.s
                 ELSE Abort("Failed to determine the latest version") /\ UNCHANGED self_version
     ELSE Goto("preflight_healthy") /\ UNCHANGED <<self_version, log, last_exit_code>>
  /\ UNCHANGED <<config, self_rebooting, upgrades_available, node_phase>>

\* Lines 549-553
PreflightAllNodesHealthy ==
  /\ pc = "preflight_healthy"
  /\ \E r \in ServerListSamples :
       LET healthy == all_nodes_healthy(r) IN
         /\ Issue("all_nodes_healthy", r, IF healthy THEN "True" ELSE "False")
         /\ IF ~healthy
            THEN Abort("Did not start upgrading the cluster because not all nodes are healthy")
            ELSE Goto("preflight_rebalance")
  /\ UNCHANGED <<config, self_version, self_rebooting, upgrades_available, node_phase>>

\* What a rebalance-status query answered, for the record
RebalanceAnswer(shape, status) ==
  IF shape = "ok" THEN (IF status = NotRunning THEN "notRunning" ELSE "running")
  ELSE IF shape = "nojson" THEN "exception"
  ELSE "unknown"

\* Lines 555-559
PreflightRebalanceStatus ==
  /\ pc = "preflight_rebalance"
  /\ \E shape \in QueryShapes, status \in RebalanceStatuses :
       LET r == RebalanceStatusResult(shape, status)
           rebalance_status == get_rebalance_status(r) IN
         /\ Issue("get_rebalance_status", r, RebalanceAnswer(shape, status))
         /\ IF rebalance_status.kind = "Raise"
            THEN Raise
            ELSE IF rebalance_status # PyStr(NotRunning)
            THEN Abort("Did not start upgrading the cluster because rebalance is running")
            ELSE Goto("for")
  /\ UNCHANGED <<config, self_version, self_rebooting, upgrades_available, node_phase>>

\* The for loop with upgrade_node leaving _rebooting as the node before set it
ForNode_keep_rebooting ==
  /\ pc = "for"
  /\ IF node > Len(self_nodes)
     THEN /\ pc' = "done"
          /\ result' = "True"
          /\ exit_status' = main_exit(result')
          /\ UNCHANGED <<node, stderr, node_phase>>
     ELSE /\ node_phase' = "up"
          /\ IF self_version # <<>>
             THEN Goto("current_version_lower")
             ELSE Goto("stop_service")
  /\ UNCHANGED <<config, self_version, self_rebooting, upgrades_available, log, last_exit_code>>

\* Lines 561-568 and 453-457: the for loop takes the next node and upgrade_node
\* begins, or the list is exhausted and upgrade() returns True
ForNode ==
  /\ pc = "for"
  /\ IF node > Len(self_nodes)
     THEN /\ pc' = "done"
          /\ result' = "True"
          /\ exit_status' = main_exit(result')
          /\ UNCHANGED <<node, stderr, self_rebooting, node_phase>>
     ELSE /\ self_rebooting' = FALSE
          /\ node_phase' = "up"
          /\ IF self_version # <<>>
             THEN Goto("current_version_lower")
             ELSE Goto("stop_service")
  /\ UNCHANGED <<config, self_version, upgrades_available, log, last_exit_code>>

(***************************************************************************)
(* upgrade_node(): a node that is not upgraded.                            *)
(***************************************************************************)
\* What the version query told about the node, for the record: the relation
\* of the version the node runs to the version the target stands for
VersionAnswer(shape, cur, target) ==
  IF shape = "ok"
  THEN LET c == TupleCmp(cur, target) IN
         IF c = "lt" THEN "lower" ELSE IF c = "eq" THEN "equal" ELSE "higher"
  ELSE shape

\* Lines 457-461, and 471-474 when no operating system upgrade is asked for
CurrentVersionLower ==
  /\ pc = "current_version_lower"
  /\ \E shape \in QueryShapes, cur \in NodeVersions, suffix \in BuildSuffixes :
       LET r == ServerInfoResult(shape, cur, suffix, Healthy)
           lower == current_version_lower(r, self_version) IN
         /\ Issue("current_version_lower", r, VersionAnswer(shape, cur, repo_version))
         /\ IF lower.kind = "Raise"
            THEN Raise
            ELSE IF Truthy(lower)
            THEN Goto("stop_service")
            ELSE IF self_upgrade_system
            THEN Goto("skip_upgrade_system")
            ELSE AfterSkip(self_os_upgrades_available)
  /\ UNCHANGED <<config, self_version, self_rebooting, upgrades_available, node_phase>>

\* Lines 462-474
SkipUpgradeSystem ==
  /\ pc = "skip_upgrade_system"
  /\ \E shape \in UpgradeShapes :
       LET r == UpgradeResult(shape, NoPackagesMarked)
           u == upgrade_system(r, self_os_upgrades_available) IN
         /\ Issue("upgrade_system", r, shape)
         /\ self_os_upgrades_available' = u.available
         /\ IF ~u.ret
            THEN ReturnFalse("Failed to upgrade operating system")
            ELSE AfterSkip(u.available)
  /\ UNCHANGED <<config, self_version, self_rebooting, self_couchbase_upgrades_available, node_phase>>

\* Line 472, then lines 476 and 509
SkipReboot ==
  /\ pc = "skip_reboot"
  /\ \E r \in ExitResults :
       /\ Issue("reboot", r, "dropped")
       /\ self_rebooting' = reboot_rebooting
       /\ node_phase' = "reboot_pending"
       /\ IF ~self_rebooting'
          THEN Goto("stop_service")
          ELSE Goto("wait_until_node_healthy")
  /\ UNCHANGED <<config, self_version, upgrades_available>>

(***************************************************************************)
(* upgrade_node(): a node that is upgraded.                                *)
(***************************************************************************)
\* Lines 476-481
StopService ==
  /\ pc = "stop_service"
  /\ \E r \in ExitResults :
       /\ Issue("stop_service", r, IF r.exit_code = 0 THEN "ok" ELSE "exit")
       /\ IF ~stop_service(r)
          THEN ReturnFalse("Failed to stop Couchbase service")
          ELSE Goto("upgrade_couchbase")
  /\ UNCHANGED <<config, self_version, self_rebooting, upgrades_available, node_phase>>

\* Lines 483-489, and 498-502 when no operating system upgrade is asked for
UpgradeCouchbase ==
  /\ pc = "upgrade_couchbase"
  /\ \E shape \in UpgradeShapes :
       LET r == UpgradeResult(shape, NothingToDo)
           u == upgrade_couchbase(r, self_couchbase_upgrades_available) IN
         /\ Issue("upgrade_couchbase", r, shape)
         /\ self_couchbase_upgrades_available' = u.available
         /\ IF ~u.ret
            THEN ReturnFalse("Failed to upgrade Couchbase software")
            ELSE IF self_upgrade_system
            THEN Goto("upgrade_system")
            ELSE AfterUpgrades(u.available, self_os_upgrades_available)
  /\ UNCHANGED <<config, self_version, self_rebooting, self_os_upgrades_available, node_phase>>

\* Lines 489-502
UpgradeSystem ==
  /\ pc = "upgrade_system"
  /\ \E shape \in UpgradeShapes :
       LET r == UpgradeResult(shape, NoPackagesMarked)
           u == upgrade_system(r, self_os_upgrades_available) IN
         /\ Issue("upgrade_system", r, shape)
         /\ self_os_upgrades_available' = u.available
         /\ IF ~u.ret
            THEN ReturnFalse("Failed to upgrade operating system")
            ELSE AfterUpgrades(self_couchbase_upgrades_available, u.available)
  /\ UNCHANGED <<config, self_version, self_rebooting, self_couchbase_upgrades_available, node_phase>>

\* Lines 500-502, then 509
Reboot ==
  /\ pc = "reboot"
  /\ \E r \in ExitResults :
       /\ Issue("reboot", r, "dropped")
       /\ self_rebooting' = reboot_rebooting
       /\ node_phase' = "reboot_pending"
       /\ IF ~self_rebooting'
          THEN Goto("start_service")
          ELSE Goto("wait_until_node_healthy")
  /\ UNCHANGED <<config, self_version, upgrades_available>>

\* start_service followed by the recovery command, without the wait
StartService_no_wait ==
  /\ pc = "start_service"
  /\ \E r \in ExitResults :
       /\ Issue("start_service", r, IF r.exit_code = 0 THEN "ok" ELSE "exit")
       /\ IF ~start_service(r)
          THEN ReturnFalse("Failed to start Couchbase service")
          ELSE Goto("set_recovery_type")
  /\ UNCHANGED <<config, self_version, self_rebooting, upgrades_available, node_phase>>

\* Lines 502-507
StartService ==
  /\ pc = "start_service"
  /\ \E r \in ExitResults :
       /\ Issue("start_service", r, IF r.exit_code = 0 THEN "ok" ELSE "exit")
       /\ IF ~start_service(r)
          THEN ReturnFalse("Failed to start Couchbase service")
          ELSE Goto("wait_until_node_healthy")
  /\ UNCHANGED <<config, self_version, self_rebooting, upgrades_available, node_phase>>

(***************************************************************************)
(* upgrade_node(): rejoin, rebalance, verify.                              *)
(***************************************************************************)
\* What a poll of the node status answered, for the record: the node said it
\* is healthy, the answer could not be parsed, or anything else
NodeStatusAnswer(shape, status) ==
  IF shape = "ok" THEN (IF status = Healthy THEN "healthy" ELSE "waiting")
  ELSE IF shape = "nojson" THEN "exception"
  ELSE "waiting"

\* Line 509: one round of the loop of wait_until_node_healthy (lines 232-248).
\* The query runs on the node itself: while the node is down for its reboot
\* the ssh command can only fail.
WaitUntilNodeHealthy ==
  /\ pc = "wait_until_node_healthy"
  /\ \E shape \in QueryShapes, status \in NodeStatuses :
       LET r == ServerInfoResult(shape, repo_version, <<>>, status)
           node_status == get_node_status(r) IN
         /\ node_phase = "down" => shape = "exit"
         /\ IssuePoll("get_node_status", r, NodeStatusAnswer(shape, status))
         /\ IF node_status.kind = "Raise"
            THEN Raise
            ELSE IF node_status = PyStr(Healthy)
            THEN Goto("set_recovery_type")
            ELSE Goto("wait_until_node_healthy")
  /\ UNCHANGED <<config, self_version, self_rebooting, upgrades_available, node_phase>>

\* set_recovery_type with its returned bool looked at
SetRecoveryType_checked ==
  /\ pc = "set_recovery_type"
  /\ \E r \in ExitResults :
       /\ Issue("set_recovery_type", r, "dropped")
       /\ IF ~set_recovery_type(r)
          THEN ReturnFalse("Failed to set the recovery type")
          ELSE Goto("rebalance")
  /\ UNCHANGED <<config, self_version, self_rebooting, upgrades_available, node_phase>>

\* Lines 511-512: the returned bool is dropped
SetRecoveryType ==
  /\ pc = "set_recovery_type"
  /\ \E r \in ExitResults :
       /\ Issue("set_recovery_type", r, "dropped")
       /\ Goto("rebalance")
  /\ UNCHANGED <<config, self_version, self_rebooting, upgrades_available, node_phase>>

\* Lines 514-517
Rebalance ==
  /\ pc = "rebalance"
  /\ \E r \in ExitResults :
       /\ Issue("rebalance", r, IF r.exit_code = 0 THEN "ok" ELSE "exit")
       /\ IF ~rebalance(r)
          THEN ReturnFalse("Failed to rebalance the cluster")
          ELSE Goto("wait_until_rebalanced")
  /\ UNCHANGED <<config, self_version, self_rebooting, upgrades_available, node_phase>>

\* What a poll of the rebalance status answered, for the record
RebalancePollAnswer(shape, status) ==
  IF RebalanceAnswer(shape, status) \in {"running", "unknown"}
  THEN "waiting"
  ELSE RebalanceAnswer(shape, status)

\* Line 519: one round of the loop of wait_until_rebalanced (lines 291-308)
WaitUntilRebalanced ==
  /\ pc = "wait_until_rebalanced"
  /\ \E shape \in QueryShapes, status \in RebalanceStatuses :
       LET r == RebalanceStatusResult(shape, status)
           rebalance_status == get_rebalance_status(r) IN
         /\ IssuePoll("get_rebalance_status", r, RebalancePollAnswer(shape, status))
         /\ IF rebalance_status.kind = "Raise"
            THEN Raise
            ELSE IF rebalance_status = PyStr(NotRunning)
            THEN Goto("all_nodes_healthy")
            ELSE Goto("wait_until_rebalanced")
  /\ UNCHANGED <<config, self_version, self_rebooting, upgrades_available, node_phase>>

\* The final check with its answer not looked at
AllNodesHealthy_unchecked ==
  /\ pc = "all_nodes_healthy"
  /\ \E r \in ServerListSamples :
       LET healthy == all_nodes_healthy(r) IN
         /\ Issue("all_nodes_healthy", r, IF healthy THEN "True" ELSE "False")
         /\ ReturnTrue
  /\ UNCHANGED <<config, self_version, self_rebooting, upgrades_available, node_phase>>

\* The final check repeated until it finds all nodes healthy
AllNodesHealthy_retry ==
  /\ pc = "all_nodes_healthy"
  /\ \E r \in ServerListSamples :
       LET healthy == all_nodes_healthy(r) IN
         /\ IssuePoll("all_nodes_healthy", r, IF healthy THEN "True" ELSE "waiting")
         /\ IF ~healthy
            THEN Goto("all_nodes_healthy")
            ELSE ReturnTrue
  /\ UNCHANGED <<config, self_version, self_rebooting, upgrades_available, node_phase>>

\* Lines 521-526
AllNodesHealthy ==
  /\ pc = "all_nodes_healthy"
  /\ \E r \in ServerListSamples :
       LET healthy == all_nodes_healthy(r) IN
         /\ Issue("all_nodes_healthy", r, IF healthy THEN "True" ELSE "False")
         /\ IF ~healthy
            THEN ReturnFalse("All nodes must be healthy after rebalancing finished, but are not")
            ELSE ReturnTrue
  /\ UNCHANGED <<config, self_version, self_rebooting, upgrades_available, node_phase>>

(***************************************************************************)
(* The node that was told to reboot (line 405: 'sudo /sbin/reboot' returns *)
(* at once, the node goes down and comes back on its own time).            *)
(***************************************************************************)
NodeShutsDown ==
  /\ pc # "done"
  /\ node_phase = "reboot_pending"
  /\ node_phase' = "down"
  /\ UNCHANGED <<config, self_version, self_rebooting, upgrades_available, pc, node, log,
                 stderr, result, last_exit_code, exit_status>>

NodeBoots ==
  /\ pc # "done"
  /\ node_phase = "down"
  /\ node_phase' = "restarted"
  /\ UNCHANGED <<config, self_version, self_rebooting, upgrades_available, pc, node, log,
                 stderr, result, last_exit_code, exit_status>>

Next ==
  \/ Upgrade
  \/ PreflightAllNodesHealthy
  \/ PreflightRebalanceStatus
  \/ ForNode
  \/ CurrentVersionLower
  \/ SkipUpgradeSystem
  \/ SkipReboot
  \/ StopService
  \/ UpgradeCouchbase
  \/ UpgradeSystem
  \/ Reboot
  \/ StartService
  \/ WaitUntilNodeHealthy
  \/ SetRecoveryType
  \/ Rebalance
  \/ WaitUntilRebalanced
  \/ AllNodesHealthy

Spec == Init /\ [][Next]_vars

\* The steps of Next but the two that compare versions
NextLight ==
  \/ PreflightAllNodesHealthy
  \/ PreflightRebalanceStatus
  \/ ForNode
  \/ SkipUpgradeSystem
  \/ SkipReboot
  \/ StopService
  \/ UpgradeCouchbase
  \/ UpgradeSystem
  \/ Reboot
  \/ StartService
  \/ WaitUntilNodeHealthy
  \/ SetRecoveryType
  \/ Rebalance
  \/ WaitUntilRebalanced
  \/ AllNodesHealthy

\* The program has one thread and waits for each ssh command (lines 413-440):
\* as long as upgrade() has not returned, its next step is taken.  At each
\* position one step is enabled, so this is weak fairness of Next; for Upgrade
\* and CurrentVersionLower, which always leave their position, weak fairness
\* is written out as 'the position is left again'.
SpecFair ==
  /\ Init
  /\ [][Next]_vars
  /\ WF_vars(NextLight)
  /\ []<>(pc # "upgrade")
  /\ []<>(pc # "current_version_lower")

(***************************************************************************)
(* Function specification of all_nodes_healthy: the answer of server-list  *)
(* is drawn at the start, the action applies the method to it.             *)
(***************************************************************************)
InitAllNodesHealthy ==
  /\ self_nodes = <<1>>
  /\ repo_version \in TargetVersions
  /\ self_version = FormatVersion(repo_version)
  /\ self_upgrade_system = FALSE
  /\ self_reboot = FALSE
  /\ self_force_reboot = FALSE
  /\ self_rebooting = FALSE
  /\ self_couchbase_upgrades_available = FALSE
  /\ self_os_upgrades_available = FALSE
  /\ pc = "function"
  /\ node = 1
  /\ log = <<>>
  /\ stderr = <<>>
  /\ result = "running"
  /\ last_exit_code = -1
  /\ exit_status = -1
  /\ node_phase = "up"
  /\ fn_in \in [exit_code : {0, 1}, lines : MemberLists, newline : BOOLEAN]
  /\ fn_out = "none"

ApplyAllNodesHealthy ==
  /\ pc = "function"
  /\ fn_out = "none"
  /\ fn_out' = IF all_nodes_healthy(ServerListResult(fn_in.exit_code, fn_in.lines, fn_in.newline))
               THEN "True" ELSE "False"
  /\ UNCHANGED <<self_nodes, self_version, self_upgrade_system, self_reboot, self_force_reboot,
                 self_rebooting, upgrades_available, repo_version, pc, node, log, stderr,
                 result, last_exit_code, exit_status, node_phase, fn_in>>

SpecAllNodesHealthy == InitAllNodesHealthy /\ [][ApplyAllNodesHealthy]_vars

(***************************************************************************)
(* Function specification of get_node_status: the answer of server-info is *)
(* drawn at the start, the action applies the method to it.                *)
(***************************************************************************)
InitGetNodeStatus ==
  /\ self_nodes = <<1>>
  /\ repo_version \in TargetVersions
  /\ self_version = FormatVersion(repo_version)
  /\ self_upgrade_system = FALSE
  /\ self_reboot = FALSE
  /\ self_force_reboot = FALSE
  /\ self_rebooting = FALSE
  /\ self_couchbase_upgrades_available = FALSE
  /\ self_os_upgrades_available = FALSE
  /\ pc = "function"
  /\ node = 1
  /\ log = <<>>
  /\ stderr = <<>>
  /\ result = "running"
  /\ last_exit_code = -1
  /\ exit_status = -1
  /\ node_phase = "up"
  /\ fn_in \in [shape : QueryShapes, cur : NodeVersions, suffix : BuildSuffixes,
                status : NodeStatuses]
  /\ fn_out = "none"

\* fn_out: "Raise", "False" (the Unknown of the program) or "str" (a status)
ApplyGetNodeStatus ==
  /\ pc = "function"
  /\ fn_out = "none"
  /\ fn_out' = get_node_status(
                  ServerInfoResult(fn_in.shape, fn_in.cur, fn_in.suffix, fn_in.status)).kind
  /\ UNCHANGED <<self_nodes, self_version, self_upgrade_system, self_reboot, self_force_reboot,
                 self_rebooting, upgrades_available, repo_version, pc, node, log, stderr,
                 result, last_exit_code, exit_status, node_phase, fn_in>>

SpecGetNodeStatus == InitGetNodeStatus /\ [][ApplyGetNodeStatus]_vars

(***************************************************************************)
(* The scenario of three nodes with reboot on upgrade: the run of the      *)
(* program on a list of three nodes and --reboot, any environment.         *)
(***************************************************************************)
ScenarioNodes == <<1, 2, 3>>

InitScenario ==
  /\ self_nodes = ScenarioNodes
  /\ repo_version \in TargetVersions
  /\ self_version \in {Latest, FormatVersion(repo_version)}
  /\ self_upgrade_system \in BOOLEAN
  /\ self_reboot = TRUE
  /\ self_force_reboot = FALSE
  /\ self_rebooting = FALSE
  /\ self_couchbase_upgrades_available = FALSE
  /\ self_os_upgrades_available = FALSE
  /\ pc = "upgrade"
  /\ node = 1
  /\ log = <<>>
  /\ stderr = <<>>
  /\ result = "running"
  /\ last_exit_code = -1
  /\ exit_status = -1
  /\ node_phase = "up"
  /\ fn_in = NoInput
  /\ fn_out = "none"

SpecScenario == InitScenario /\ [][Next]_vars

(***************************************************************************)
(* The run on one node together with the node it reboots: the program's    *)
(* steps interleave with the node going down and coming back.              *)
(***************************************************************************)
InitReboot ==
  /\ self_nodes = <<1>>
  /\ repo_version \in TargetVersions
  /\ self_version \in {Latest, <<>>, FormatVersion(repo_version)}
  /\ self_upgrade_system \in BOOLEAN
  /\ self_reboot \in BOOLEAN
  /\ self_force_reboot \in BOOLEAN
  /\ self_rebooting = FALSE
  /\ self_couchbase_upgrades_available = FALSE
  /\ self_os_upgrades_available = FALSE
  /\ pc = "upgrade"
  /\ node = 1
  /\ log = <<>>
  /\ stderr = <<>>
  /\ result = "running"
  /\ last_exit_code = -1
  /\ exit_status = -1
  /\ node_phase = "up"
  /\ fn_in = NoInput
  /\ fn_out = "none"

NextReboot == Next \/ NodeShutsDown \/ NodeBoots

SpecReboot == InitReboot /\ [][NextReboot]_vars

(***************************************************************************)
(* Reading the record of a run.                                            *)
(***************************************************************************)
\* Attempt a issued cmd
Has(a, cmd) == \E i \in DOMAIN log : log[i].att = a /\ log[i].cmd = cmd

\* Attempt a issued cmd and learned out from it
HasOut(a, cmd, out) ==
  \E i \in DOMAIN log : log[i].att = a /\ log[i].cmd = cmd /\ log[i].out = out

Positions == 1..Len(self_nodes)

\* The commands of the node attempts, in the order issued, without their answers
RECURSIVE CmdsFrom(_)
CmdsFrom(i) ==
  IF i > Len(log) THEN <<>>
  ELSE IF log[i].att = 0 \/ log[i].cmd \in {"current_version_lower", "upgrade_system"}
  THEN CmdsFrom(i + 1)
  ELSE <<<<log[i].att, log[i].cmd>>>> \o CmdsFrom(i + 1)

IsPrefix(s, t) == Len(s) <= Len(t) /\ SubSeq(t, 1, Len(s)) = s

\* The steps of upgrade_node after the reboot decision
PostDecisionPcs ==
  {"start_service", "wait_until_node_healthy", "set_recovery_type", "rebalance",
   "wait_until_rebalanced", "all_nodes_healthy"}

PostDecisionCmds ==
  {"reboot", "start_service", "get_node_status", "set_recovery_type", "rebalance",
   "get_rebalance_status", "all_nodes_healthy"}

\* Attempt a got past its reboot decision (and, when it decided to reboot,
\* has issued the reboot)
Decided(a) ==
  \/ a < node
  \/ a = node /\ pc \in PostDecisionPcs
  \/ a = node /\ pc = "done" /\ \E c \in PostDecisionCmds : Has(a, c)

\* upgrade_node wrote one of its failure messages
NodeFailureMessages ==
  {"Failed to upgrade operating system", "Failed to stop Couchbase service",
   "Failed to upgrade Couchbase software", "Failed to start Couchbase service",
   "Failed to rebalance the cluster",
   "All nodes must be healthy after rebalancing finished, but are not"}

AttemptFailed == \E i \in DOMAIN stderr : stderr[i] \in NodeFailureMessages

(***************************************************************************)
(* Properties of upgrade_node and upgrade().                               *)
(***************************************************************************)
\* C1: a node whose current version is equal to or higher than the target
\* version is never sent the stop-service, the package-upgrade or the
\* start-service command in that attempt, and when an operating system
\* upgrade is asked for it is still sent to that node (it has been issued, or
\* it is the very next command of the attempt).
C1_NotLowerIsSkipped ==
  \A a \in Positions :
    (HasOut(a, "current_version_lower", "equal") \/ HasOut(a, "current_version_lower", "higher"))
    => /\ ~Has(a, "stop_service")
       /\ ~Has(a, "upgrade_couchbase")
       /\ ~Has(a, "start_service")
       /\ self_upgrade_system
          => (Has(a, "upgrade_system") \/ (node = a /\ pc = "skip_upgrade_system"))

\* A node running 6.10.0 with target 6.6.0 finished its attempt with only the
\* operating system upgraded.
C1_Witness ==
  \E a \in Positions :
    /\ HasOut(a, "current_version_lower", "higher")
    /\ Has(a, "upgrade_system")
    /\ a < node

\* C2: in every attempt that got past the reboot decision, the reboot command
\* was issued on the node if and only if force_reboot is set, or reboot is set
\* and the package upgrade or the operating system upgrade of that same attempt
\* changed something.
C2_RebootIff ==
  \A a \in Positions :
    Decided(a) =>
      (Has(a, "reboot") <=>
         (self_force_reboot \/
            (self_reboot /\ (HasOut(a, "upgrade_couchbase", "changed")
                             \/ HasOut(a, "upgrade_system", "changed")))))

\* The first node was upgraded and rebooted; the second node's package upgrade
\* had nothing to do and the node was started without a reboot.
C2_Witness ==
  /\ Len(self_nodes) >= 2
  /\ self_reboot
  /\ HasOut(1, "upgrade_couchbase", "changed")
  /\ Has(1, "reboot")
  /\ HasOut(2, "upgrade_couchbase", "nochange")
  /\ Has(2, "start_service")
  /\ ~Has(2, "reboot")

\* C3 as stated: in an attempt that issues the reboot command, neither the
\* stop-service nor the start-service command is issued at any point, and the
\* attempt goes from the reboot directly to the wait for the node's health.
C3_Original ==
  \A a \in Positions :
    Has(a, "reboot") =>
      /\ ~Has(a, "stop_service")
      /\ ~Has(a, "start_service")
      /\ \A i \in DOMAIN log :
           (log[i].att = a /\ log[i].cmd = "reboot") =>
             IF i = Len(log)
             THEN pc = "wait_until_node_healthy"
             ELSE log[i + 1].att = a /\ log[i + 1].cmd = "get_node_status"

\* C3 as amended: in an attempt that issues the reboot command, the
\* start-service command is never issued, no stop-service command is issued
\* after the reboot, and the attempt goes from the reboot directly to the wait
\* for the node's health; the stop-service command precedes the reboot exactly
\* when the node went through the package upgrade.
C3_RebootReplacesStart ==
  \A a \in Positions :
    Has(a, "reboot") =>
      /\ ~Has(a, "start_service")
      /\ Has(a, "stop_service") <=> Has(a, "upgrade_couchbase")
      /\ \A i \in DOMAIN log :
           (log[i].att = a /\ log[i].cmd = "reboot") =>
             /\ \A j \in DOMAIN log : (j > i /\ log[j].att = a) => log[j].cmd # "stop_service"
             /\ IF i = Len(log)
                THEN pc = "wait_until_node_healthy"
                ELSE log[i + 1].att = a /\ log[i + 1].cmd = "get_node_status"

\* An upgraded node was stopped, rebooted and found healthy without a start.
C3_Witness ==
  \E a \in Positions :
    /\ Has(a, "stop_service")
    /\ Has(a, "reboot")
    /\ HasOut(a, "get_node_status", "healthy")
    /\ node = a /\ pc = "set_recovery_type"

\* C4: when the pre-flight all_nodes_healthy check returned False, or the
\* pre-flight rebalance status was not 'notRunning' (running or unknown),
\* upgrade() has returned False and no command of a node attempt was issued.
C4_PreflightAborts ==
  (\E i \in DOMAIN log :
     /\ log[i].att = 0
     /\ \/ log[i].cmd = "all_nodes_healthy" /\ log[i].out = "False"
        \/ log[i].cmd = "get_rebalance_status" /\ log[i].out \in {"running", "unknown"})
  => /\ pc = "done"
     /\ result = "False"
     /\ \A j \in DOMAIN log : log[j].att = 0

\* The rebalance status could not be told and the run ended before any node.
C4_Witness ==
  /\ HasOut(0, "all_nodes_healthy", "True")
  /\ HasOut(0, "get_rebalance_status", "unknown")
  /\ result = "False"

\* C5: once the attempt on the node at position i failed, upgrade() has
\* returned False, no command was issued on a node after i, and no command is
\* issued any more (on later nodes or as a rollback of earlier ones).
C5_StopsAtFirstFailure ==
  /\ [](AttemptFailed =>
          /\ pc = "done"
          /\ result = "False"
          /\ log # <<>>
          /\ log[Len(log)].att = node
          /\ \A i \in DOMAIN log : log[i].att <= node)
  /\ [][AttemptFailed => (log' = log /\ node' = node /\ result' = result)]_vars

\* The first of two nodes failed: the second was left untouched.
C5_Witness ==
  /\ AttemptFailed
  /\ node = 1
  /\ Len(self_nodes) = 2

C7_LatestFailureAborts ==
  \A i \in DOMAIN log :
    (log[i].cmd = "get_latest_version" /\ log[i].out \in {"exit", "zero", "empty"})
    => /\ pc = "done"
       /\ result = "False"
       /\ stderr = <<"Failed to determine the latest version">>
       /\ Len(log) = 1

\* C8: the path of an upgraded and rebooted node, as the commands of attempt a
NodePath(a) ==
  << <<a, "stop_service">>, <<a, "upgrade_couchbase">>, <<a, "reboot">>,
     <<a, "get_node_status">>, <<a, "set_recovery_type">>, <<a, "rebalance">>,
     <<a, "get_rebalance_status">>, <<a, "all_nodes_healthy">> >>

\* So far every node was found lower than the target, every package upgrade
\* changed something and no command failed.
ScenarioSoFar ==
  /\ self_reboot
  /\ \A i \in DOMAIN log :
       /\ log[i].cmd = "current_version_lower" => log[i].out = "lower"
       /\ log[i].cmd = "upgrade_couchbase" => log[i].out = "changed"
       /\ log[i].out \notin {"exit", "nojson", "nofield", "exception", "False",
                             "running", "unknown", "empty", "zero", "garbled"}

\* C8: with three nodes lower than the target, reboot on upgrade, every
\* command succeeding and every package upgrade changing something, the
\* commands issued are at any time a prefix of: the full path on node 1, then
\* on node 2, then on node 3 (one reboot each); the run does not end before
\* the path is complete, and it ends with upgrade() returning True.
C8_ThreeNodesScenario ==
  ScenarioSoFar =>
    /\ IsPrefix(CmdsFrom(1), NodePath(1) \o NodePath(2) \o NodePath(3))
    /\ pc = "done" =>
         /\ result = "True"
         /\ CmdsFrom(1) = NodePath(1) \o NodePath(2) \o NodePath(3)

\* The scenario ran to its end.
C8_Witness ==
  /\ ScenarioSoFar
  /\ pc = "done"
  /\ Len(self_nodes) = 3
  /\ \A a \in Positions : HasOut(a, "upgrade_couchbase", "changed") /\ Has(a, "reboot")

\* Every version query so far found the node at or above the target.
AllNotLower ==
  \A i \in DOMAIN log :
    log[i].cmd = "current_version_lower" => log[i].out \in {"equal", "higher"}

\* C9: in a run with a target, without operating system upgrade and without
\* force_reboot, in which every node is at or above the target, no node
\* attempt issues a command other than its version query, and a run that
\* ends after reaching the nodes ends with upgrade() returning True, having
\* queried each node once.
C9_RerunIsNoOp ==
  (self_version # <<>> /\ ~self_upgrade_system /\ ~self_force_reboot /\ AllNotLower)
  => /\ \A i \in DOMAIN log : log[i].att > 0 => log[i].cmd = "current_version_lower"
     /\ (pc = "done" /\ \E i \in DOMAIN log : log[i].att > 0)
        => /\ result = "True"
           /\ \A a \in Positions :
                Cardinality({i \in DOMAIN log : log[i].att = a}) = 1

\* Two nodes, one at and one above the target, with reboot on upgrade set:
\* the run ended in success with two version queries.
C9_Witness ==
  /\ self_reboot /\ ~self_upgrade_system /\ ~self_force_reboot
  /\ Len(self_nodes) = 2
  /\ HasOut(1, "current_version_lower", "equal")
  /\ HasOut(2, "current_version_lower", "higher")
  /\ pc = "done" /\ result = "True"

\* The command on record at i failed: a query or command that exited
\* non-zero or lacked its field, a final check that returned False, or a
\* reboot or recovery command (whose result the program drops) that exited
\* non-zero.
StepFailed(i) ==
  \/ log[i].out \in {"exit", "nofield", "False"}
  \/ /\ log[i].cmd \in {"reboot", "set_recovery_type"}
     /\ i = Len(log)
     /\ last_exit_code # 0

\* C10 as stated: every failed step of a node attempt is the last command of
\* the run, and upgrade() has returned False.
C10_Original ==
  \A i \in DOMAIN log :
    (log[i].att > 0 /\ StepFailed(i))
    => (i = Len(log) /\ pc = "done" /\ result = "False")

\* The steps whose failure upgrade_node answers with return False
FatalStep(i) ==
  \/ /\ log[i].cmd \in {"stop_service", "upgrade_couchbase", "upgrade_system",
                        "start_service", "rebalance"}
     /\ log[i].out = "exit"
  \/ log[i].cmd = "all_nodes_healthy" /\ log[i].out = "False"

\* C10 as amended: a failed stop-service, package upgrade, operating system
\* upgrade, start-service, rebalance or final health check is the last
\* command of the run (nothing follows it, it is not retried) and upgrade()
\* has returned False; a failed version query, reboot or recovery command
\* does not abort the attempt.
C10_FatalStepsAbort ==
  \A i \in DOMAIN log :
    (log[i].att > 0 /\ FatalStep(i))
    => (i = Len(log) /\ pc = "done" /\ result = "False")

\* An attempt went on after a failed version query and ended at a failed
\* rebalance.
C10_Witness ==
  \E a \in Positions :
    /\ HasOut(a, "current_version_lower", "exit")
    /\ HasOut(a, "rebalance", "exit")
    /\ pc = "done"


(***************************************************************************)
(* Properties of the run as a whole, of the wait loops and of the state    *)
(* kept between nodes.                                                     *)
(***************************************************************************)
\* The largest position of a non-empty set of positions of the record
Last(S) == CHOOSE m \in S : \A k \in S : k <= m

\* Position i of the record holds the first command of a node attempt
FirstOfAttempt(i) ==
  /\ log[i].att > 0
  /\ (i = 1 \/ log[i - 1].att # log[i].att)

\* C11: a final check (after a node's rebalance) that returned False is the
\* last command of the run and upgrade() has returned False; and whenever the
\* first command of a node attempt was issued, the most recent
\* all-nodes-healthy check before it (the pre-flight one or the final check of
\* an earlier node) had returned True.
C11_HealthyBeforeEachNode ==
  /\ \A i \in DOMAIN log :
       (log[i].out = "False" /\ log[i].cmd = "all_nodes_healthy" /\ log[i].att > 0)
       => (i = Len(log) /\ pc = "done" /\ result = "False")
  /\ \A i \in DOMAIN log :
       FirstOfAttempt(i) =>
         LET checks == {j \in 1..(i - 1) : log[j].cmd = "all_nodes_healthy"} IN
           /\ checks # {}
           /\ log[Last(checks)].out = "True"

\* The second node was begun after the final check of the first returned True.
C11_Witness ==
  /\ HasOut(1, "all_nodes_healthy", "True")
  /\ \E i \in DOMAIN log : log[i].att = 2

\* Position i of the record is a command after which upgrade_node can have
\* returned True: the final check that passed, a version query that did not
\* find the node lower, or the operating system upgrade of such a node
EndsAttempt(i) ==
  \/ log[i].cmd = "all_nodes_healthy" /\ log[i].out = "True"
  \/ log[i].cmd = "current_version_lower" /\ log[i].out \in {"equal", "higher", "exit", "nofield"}
  \/ /\ log[i].cmd = "upgrade_system"
     /\ log[i].out \in {"changed", "nochange"}
     /\ ~Has(log[i].att, "stop_service")

\* C12: the commands of the node attempts are never interleaved: the record
\* goes through the positions in list order, one attempt after the other, no
\* command is issued on a node beyond the one of the for loop, and the first
\* command on position i + 1 directly follows a command of position i after
\* which upgrade_node returned True and no failure was written.
C12_OneAttemptInFlight ==
  /\ log # <<>> =>
       /\ log[1].att <= 1
       /\ log[Len(log)].att <= node
       /\ log[Len(log)].att <= Len(self_nodes)
  /\ \A i \in 1..(Len(log) - 1) :
       \/ log[i + 1].att = log[i].att
       \/ /\ log[i + 1].att = log[i].att + 1
          /\ log[i].att > 0 => (EndsAttempt(i) /\ log[i].att < node)

\* The first node was skipped as up to date, then the second node was stopped.
C12_Witness ==
  /\ HasOut(1, "current_version_lower", "equal")
  /\ ~Has(1, "stop_service")
  /\ Has(2, "stop_service")

\* The run failed: upgrade() or upgrade_node() wrote a failure message, or an
\* exception ended the run
RunFailed == stderr # <<>> \/ result = "exception"

\* C13: the process has an exit status once upgrade() is over; the status is
\* zero exactly when upgrade() returned True, which it does only after the
\* attempt on every node returned True, and it is non-zero whenever the run
\* failed (in target resolution, a pre-flight check or a node attempt).
C13_ExitStatus ==
  /\ exit_status # -1 <=> pc = "done"
  /\ exit_status = 0 <=> result = "True"
  /\ result = "True" => (node = Len(self_nodes) + 1 /\ ~RunFailed)
  /\ RunFailed => (pc = "done" /\ exit_status \notin {0, -1})

\* A run that failed at the rebalance of its second node ended with status 1.
C13_Witness ==
  /\ HasOut(2, "rebalance", "exit")
  /\ pc = "done"
  /\ exit_status = 1

\* The steps of upgrade_node in their order
StepOrder ==
  <<"current_version_lower", "stop_service", "upgrade_couchbase", "upgrade_system",
    "reboot", "start_service", "get_node_status", "set_recovery_type", "rebalance",
    "get_rebalance_status", "all_nodes_healthy">>

\* The place of each step in that order
Rank ==
  [cmd \in {StepOrder[k] : k \in DOMAIN StepOrder} |->
     CHOOSE k \in DOMAIN StepOrder : StepOrder[k] = cmd]

\* C14: the commands of a node attempt are issued one after the other, and
\* each comes later than its predecessor in the order version
\* check, stop, package upgrade, operating system upgrade, reboot, start,
\* wait for health, recovery type, rebalance, wait for the rebalance, final
\* check (each at most once, the wait loops being one step each); the
\* rebalance is issued only after the wait for health saw 'healthy', and the
\* final check only after the wait for the rebalance saw 'notRunning'.
C14_StepOrder ==
  /\ \A i \in 1..(Len(log) - 1) :
       \/ log[i].att < log[i + 1].att
       \/ log[i].att = 0 /\ log[i + 1].att = 0
       \/ log[i].att = log[i + 1].att /\ Rank[log[i].cmd] < Rank[log[i + 1].cmd]
  /\ \A j \in DOMAIN log :
       (log[j].att > 0 /\ log[j].cmd \in {"set_recovery_type", "rebalance"})
       => \E i \in 1..(j - 1) :
            log[i] = [att |-> log[j].att, cmd |-> "get_node_status", out |-> "healthy"]
  /\ \A j \in DOMAIN log :
       (log[j].att > 0 /\ log[j].cmd = "all_nodes_healthy")
       => \E i \in 1..(j - 1) :
            log[i] = [att |-> log[j].att, cmd |-> "get_rebalance_status", out |-> "notRunning"]

\* A node went through every step of the path with a reboot, up to the final
\* check.
C14_Witness ==
  \E a \in Positions :
    /\ Has(a, "current_version_lower")
    /\ Has(a, "stop_service")
    /\ Has(a, "upgrade_couchbase")
    /\ Has(a, "upgrade_system")
    /\ Has(a, "reboot")
    /\ HasOut(a, "get_node_status", "healthy")
    /\ Has(a, "set_recovery_type")
    /\ HasOut(a, "rebalance", "ok")
    /\ HasOut(a, "get_rebalance_status", "notRunning")
    /\ HasOut(a, "all_nodes_healthy", "True")

\* C15: a wait loop of a node attempt whose latest poll did not see the
\* target status ('healthy', 'notRunning') is still polling: that poll is the
\* last command of the record, the program is in the loop, and the run has
\* neither failed nor ended.
C15_PollsUntilTarget ==
  \A i \in DOMAIN log :
    /\ (log[i].att > 0 /\ log[i].cmd = "get_node_status" /\ log[i].out # "healthy")
       => (i = Len(log) /\ pc = "wait_until_node_healthy" /\ result = "running" /\ ~RunFailed)
    /\ (log[i].att > 0 /\ log[i].cmd = "get_rebalance_status" /\ log[i].out # "notRunning")
       => (i = Len(log) /\ pc = "wait_until_rebalanced" /\ result = "running" /\ ~RunFailed)

\* The steps of upgrade_node after wait_until_node_healthy returned
AfterHealthyPcs == {"set_recovery_type", "rebalance", "wait_until_rebalanced", "all_nodes_healthy"}

\* C16: when the attempt that issued the reboot command is past its wait for
\* the node's health, the node has gone down and come back: the 'healthy'
\* that ended the wait was not seen on the node still up before its reboot.
C16_HealthyAfterRestart ==
  (pc \in AfterHealthyPcs /\ self_rebooting) => node_phase = "restarted"

\* C17: get_node_status returns False (the Unknown of the program) and does
\* not raise when the command exits non-zero, when its output is not JSON and
\* when the parsed output lacks the status field.
C17_UnknownNeverRaises ==
  (fn_out # "none" /\ fn_in.shape \in {"exit", "nojson", "nofield"}) => fn_out = "False"

\* upgrade_node was called for the node of the for loop and has issued no
\* command yet
AttemptStart ==
  /\ pc \in {"current_version_lower", "stop_service"}
  /\ \A i \in DOMAIN log : log[i].att # node

\* C18 as stated: when the attempt on a node begins, _rebooting,
\* _couchbase_upgrades_available and _os_upgrades_available are all False.
C18_Original ==
  AttemptStart =>
    /\ ~self_rebooting
    /\ ~self_couchbase_upgrades_available
    /\ ~self_os_upgrades_available

\* What the latest upgrade command of the run with exit code 0 found (FALSE
\* when there was none): cmd is "upgrade_couchbase" or "upgrade_system"
LastUpgradeChanged(cmd) ==
  LET done == {i \in DOMAIN log : log[i].cmd = cmd /\ log[i].out # "exit"} IN
    IF done = {} THEN FALSE ELSE log[Last(done)].out = "changed"

\* C18 as amended: only _rebooting is reset when the attempt on a node
\* begins; _couchbase_upgrades_available and _os_upgrades_available start
\* False and hold what the latest successful package or operating system
\* upgrade command of the run found, on whichever node it ran.
C18_OnlyRebootingIsReset ==
  /\ AttemptStart => ~self_rebooting
  /\ self_couchbase_upgrades_available = LastUpgradeChanged("upgrade_couchbase")
  /\ self_os_upgrades_available = LastUpgradeChanged("upgrade_system")

\* The attempt on the second node begins after the first node was upgraded
\* and rebooted: _rebooting is False again, the package flag is still True.
C18_Witness ==
  /\ AttemptStart
  /\ node = 2
  /\ Has(1, "reboot")
  /\ HasOut(1, "upgrade_couchbase", "changed")
  /\ self_couchbase_upgrades_available
  /\ ~self_rebooting

\* upgrade() is past its target resolution (lines 538-547) with a target
Resolved == pc = "preflight_healthy" \/ Has(0, "all_nodes_healthy")

\* C19: the latest-version command is issued at most once and before any
\* other command; from the pre-flight checks on _version is never 'latest'
\* but the empty string or the concrete version the repository named, the
\* same for every node's version check; and no version check is made without
\* a target.
C19_TargetResolvedOnce ==
  /\ \A i \in DOMAIN log : log[i].cmd = "get_latest_version" => (i = 1 /\ log[i].att = 0)
  /\ Resolved => self_version \in {<<>>, FormatVersion(repo_version)}
  /\ (Resolved /\ Has(0, "get_latest_version")) => self_version = FormatVersion(repo_version)
  /\ (\E a \in Positions : Has(a, "current_version_lower"))
     => (Resolved /\ self_version = FormatVersion(repo_version))

\* 'latest' was resolved once and two nodes had their version checked
\* against it.
C19_Witness ==
  /\ HasOut(0, "get_latest_version", "ok")
  /\ Has(1, "current_version_lower")
  /\ Has(2, "current_version_lower")
  /\ self_version = FormatVersion(repo_version)

\* C20: whatever the recovery command exited with, the attempt goes on: the
\* rebalance command is the next command of the same attempt, and until it
\* is issued the run has neither failed nor ended.
C20_RecoveryFailureIgnored ==
  \A i \in DOMAIN log :
    log[i].cmd = "set_recovery_type" =>
      IF i = Len(log)
      THEN pc = "rebalance" /\ result = "running" /\ ~RunFailed
      ELSE log[i + 1] \in [att : {log[i].att}, cmd : {"rebalance"}, out : {"ok", "exit"}]

\* The recovery command of the second node exited non-zero and the attempt is
\* about to issue the rebalance.
C20_Witness ==
  /\ log # <<>>
  /\ log[Len(log)] = [att |-> 2, cmd |-> "set_recovery_type", out |-> "dropped"]
  /\ last_exit_code # 0
  /\ pc = "rebalance"


(***************************************************************************)
(* Properties of failed version queries, of failed upgrades and of the     *)
(* termination of a run.                                                   *)
(***************************************************************************)
\* C21: a node whose version query exited non-zero or answered without a
\* version field is never sent the stop-service, the package-upgrade or the
\* start-service command in that attempt; and when neither operating system
\* upgrades nor a forced reboot are asked for, the query is the only command
\* of the attempt, upgrade_node has returned True and the for loop has gone
\* on past the node.
C21_FailedQueryIsSkipped ==
  \A i \in DOMAIN log :
    (log[i].out \in {"exit", "nofield"} /\ log[i].cmd = "current_version_lower") =>
      /\ ~Has(log[i].att, "stop_service")
      /\ ~Has(log[i].att, "upgrade_couchbase")
      /\ ~Has(log[i].att, "start_service")
      /\ (~self_upgrade_system /\ ~self_force_reboot) =>
           /\ node > log[i].att
           /\ \A j \in DOMAIN log : log[j].att = log[i].att => j = i

\* The version query of the first node failed, the node was passed over and
\* the second node was stopped for its upgrade.
C21_Witness ==
  /\ ~self_upgrade_system
  /\ ~self_force_reboot
  /\ HasOut(1, "current_version_lower", "exit")
  /\ Has(2, "stop_service")

\* C22: when the package upgrade or the operating system upgrade of a node
\* that was stopped exits non-zero, that command is the last one of the run:
\* upgrade() has returned False, and neither the start-service nor the reboot
\* command (nor any later step) was issued on the node.
C22_FailedUpgradeLeavesNodeStopped ==
  \A i \in DOMAIN log :
    (/\ log[i].out = "exit"
     /\ log[i].cmd \in {"upgrade_couchbase", "upgrade_system"}
     /\ HasOut(log[i].att, "stop_service", "ok")) =>
      /\ i = Len(log)
      /\ pc = "done"
      /\ result = "False"
      /\ ~Has(log[i].att, "start_service")
      /\ ~Has(log[i].att, "reboot")
      /\ ~Has(log[i].att, "get_node_status")
      /\ ~Has(log[i].att, "rebalance")

\* The second node was stopped, its package was upgraded and its operating
\* system upgrade failed.
C22_Witness ==
  /\ HasOut(2, "stop_service", "ok")
  /\ HasOut(2, "upgrade_couchbase", "changed")
  /\ HasOut(2, "upgrade_system", "exit")
  /\ pc = "done"

\* C23: a run in which every command returns ends (upgrade() returns or an
\* exception ends the process) unless it stays in wait_until_node_healthy or
\* in wait_until_rebalanced for ever: if each of the two loops is left again
\* whenever it is entered, the run terminates.
C23_Terminates ==
  ([]<>(pc # "wait_until_node_healthy") /\ []<>(pc # "wait_until_rebalanced"))
  => <>(pc = "done")

\* A run over two nodes went through both wait loops on each and returned
\* True.
C23_Witness ==
  /\ pc = "done"
  /\ result = "True"
  /\ HasOut(1, "get_node_status", "healthy")
  /\ HasOut(1, "get_rebalance_status", "notRunning")
  /\ HasOut(2, "get_node_status", "healthy")
  /\ HasOut(2, "get_rebalance_status", "notRunning")

====
